---- MODULE Spec2Model ----
(***************************************************************************)
(* StringService: a go-kit service exposing Uppercase and Count over       *)
(* HTTP/JSON.  The model follows one HTTP request per worker goroutine     *)
(* through decode -> endpoint -> decorated service chain -> encode, with   *)
(* the metrics and the logger sink as the only shared state.               *)
(*                                                                         *)
(* A Go string is modelled as a sequence of bytes (code units); error      *)
(* messages, metric labels and JSON keys are TLA+ strings.                 *)
(***************************************************************************)
EXTENDS Integers, Sequences, FiniteSets, TLC

\* --------------------------------------------------------------- bounds
\* Longest request string of the single-request specification.
MaxLen == 3
\* Number of concurrently served requests (one goroutine each).
NumRequests == 2

\* Bytes the request strings are built from: 'a', 'z', 'A', '1'.
Alphabet == {97, 122, 65, 49}

RECURSIVE StringsOfLen(_)
StringsOfLen(n) ==
    IF n = 0 THEN {<<>>}
    ELSE {Append(s, c) : s \in StringsOfLen(n - 1), c \in Alphabet}

RECURSIVE StringsUpTo(_)
StringsUpTo(n) ==
    IF n = 0 THEN StringsOfLen(0)
    ELSE StringsOfLen(n) \cup StringsUpTo(n - 1)

\* Request strings of the concurrent specification: the empty string and
\* one non-empty string with a lower-case letter.
SampleStrings == {<<>>, <<97>>}

\* ------------------------------------------------------------- errors
\* A Go error value: nil, or an error carrying a message.
Nil == [isNil |-> TRUE, msg |-> ""]

NewError(m) == [isNil |-> FALSE, msg |-> m]

ErrEmptyNoMessage == NewError("")

\* var ErrEmpty = errors.New("empty string")
ErrEmpty == NewError("empty string")

\* ------------------------------------------------------------ service
\* strings.ToUpper restricted to ASCII: 'a'..'z' are shifted to 'A'..'Z'.
ToUpperByte(b) == IF b >= 97 /\ b <= 122 THEN b - 32 ELSE b

RECURSIVE ToUpper(_)
ToUpper(s) ==
    IF s = <<>> THEN <<>>
    ELSE <<ToUpperByte(Head(s))>> \o ToUpper(Tail(s))

UppercaseNoTransform(s) ==
    IF s = <<>> THEN [v |-> <<>>, err |-> ErrEmpty]
    ELSE [v |-> s, err |-> Nil]

UppercaseNoEmptyCheck(s) == [v |-> ToUpper(s), err |-> Nil]

\* func (stringService) Uppercase(_ context.Context, s string) (string, error)
Uppercase(s) ==
    IF s = <<>> THEN [v |-> <<>>, err |-> ErrEmpty]
    ELSE [v |-> ToUpper(s), err |-> Nil]

CountOffByOne(s) == IF s = <<>> THEN 0 ELSE Len(s) - 1

\* func (stringService) Count(_ context.Context, s string) int
Count(s) == Len(s)

\* The stringService of the earlier, undecorated program.
UndecoratedUppercase(s) ==
    IF s = <<>> THEN [v |-> <<>>, err |-> ErrEmpty]
    ELSE [v |-> ToUpper(s), err |-> Nil]

UndecoratedCount(s) == Len(s)

\* ------------------------------------------------ requests and responses
NoRequest == [type |-> "none", S |-> <<>>]

\* type uppercaseRequest struct { S string `json:"s"` }
uppercaseRequest(s) == [type |-> "uppercaseRequest", S |-> s]

\* type countRequest struct { S string `json:"s"` }
countRequest(s) == [type |-> "countRequest", S |-> s]

NoResponse == [type |-> "none"]

\* type uppercaseResponse struct { V string `json:"v"`; Err string `json:"err,omitempty"` }
uppercaseResponse(v, e) == [type |-> "uppercaseResponse", V |-> v, Err |-> e]

\* type countResponse struct { V int `json:"V"` }
countResponse(n) == [type |-> "countResponse", V |-> n]

\* Request bodies on the wire: text that is not JSON, a JSON object with
\* no "s" member, one whose "s" is a number, one whose "s" is a string.
MalformedBody == [json |-> "malformed", field |-> "absent", s |-> <<>>]

NoFieldBody == [json |-> "object", field |-> "absent", s |-> <<>>]

NumberFieldBody == [json |-> "object", field |-> "number", s |-> <<>>]

StringBody(s) == [json |-> "object", field |-> "string", s |-> s]

BodiesOver(strings) ==
    {MalformedBody, NoFieldBody, NumberFieldBody} \cup {StringBody(s) : s \in strings}

\* json.NewDecoder(r.Body).Decode(&request) into a struct with one string
\* field tagged "s": a syntax error or a non-string "s" is an error, an
\* absent "s" leaves the zero value.
JsonDecode(body) ==
    IF body.json = "malformed" THEN [S |-> <<>>, err |-> NewError("invalid character")]
    ELSE IF body.field = "number" THEN [S |-> <<>>, err |-> NewError("cannot unmarshal number")]
    ELSE IF body.field = "string" THEN [S |-> body.s, err |-> Nil]
    ELSE [S |-> <<>>, err |-> Nil]

decodeUppercaseRequestIgnoringError(body) ==
    [request |-> uppercaseRequest(JsonDecode(body).S), err |-> Nil]

\* func decodeUppercaseRequest(_ context.Context, r *http.Request) (interface{}, error)
decodeUppercaseRequest(body) ==
    LET d == JsonDecode(body)
    IN  IF d.err # Nil THEN [request |-> NoRequest, err |-> d.err]
        ELSE [request |-> uppercaseRequest(d.S), err |-> Nil]

\* func decodCountRequest(_ context.Context, r *http.Request) (interface{}, error)
decodCountRequest(body) ==
    LET d == JsonDecode(body)
    IN  IF d.err # Nil THEN [request |-> NoRequest, err |-> d.err]
        ELSE [request |-> countRequest(d.S), err |-> Nil]

\* json.NewEncoder(w).Encode(response): the JSON object written, as a
\* function from its keys; "err" carries omitempty.
encodeResponse(response) ==
    IF response.type = "uppercaseResponse"
    THEN IF response.Err = "" THEN [v |-> response.V]
         ELSE [v |-> response.V, err |-> response.Err]
    ELSE [V |-> response.V]

\* ---------------------------------------------------------- endpoints
makeUppercaseEndpointPropagating(res) ==
    IF res.err # Nil THEN [response |-> NoResponse, err |-> res.err]
    ELSE [response |-> uppercaseResponse(res.v, ""), err |-> Nil]

\* The closure of makeUppercaseEndpoint after svc.Uppercase returned res.
makeUppercaseEndpoint(res) ==
    IF res.err # Nil THEN [response |-> uppercaseResponse(res.v, res.err.msg), err |-> Nil]
    ELSE [response |-> uppercaseResponse(res.v, ""), err |-> Nil]

\* The closure of makeCountEndpoint after svc.Count returned res.
makeCountEndpoint(res) == [response |-> countResponse(res.n), err |-> Nil]

\* The request type each endpoint narrows its argument to.
EndpointRequestType(e) ==
    IF e = "makeUppercaseEndpoint" THEN "uppercaseRequest" ELSE "countRequest"

\* The service method each endpoint calls.
EndpointMethod(e) ==
    IF e = "makeUppercaseEndpoint" THEN "uppercase" ELSE "count"

\* ------------------------------------------------------- composition
Routes == {"/uppercase", "/count"}

HandlerWithSwappedDecoder(route) ==
    IF route = "/uppercase"
    THEN [endpoint |-> "makeUppercaseEndpoint", dec |-> "decodCountRequest"]
    ELSE [endpoint |-> "makeCountEndpoint", dec |-> "decodeUppercaseRequest"]

\* uppercaseHandler, countHandler and their registration with http.Handle.
Handler(route) ==
    IF route = "/uppercase"
    THEN [endpoint |-> "makeUppercaseEndpoint", dec |-> "decodeUppercaseRequest"]
    ELSE [endpoint |-> "makeCountEndpoint", dec |-> "decodCountRequest"]

RunDecoder(dec, body) ==
    IF dec = "decodeUppercaseRequest" THEN decodeUppercaseRequest(body)
    ELSE decodCountRequest(body)

WrappingWithoutLogging == <<"instrumentingMiddleware">>

WrappingWithoutInstrumenting == <<"loggingMiddleware">>

WrappingSwapped == <<"instrumentingMiddleware", "loggingMiddleware">>

\* The decorators in the order main wraps them around stringService{}.
Wrapping == <<"loggingMiddleware", "instrumentingMiddleware">>

Reverse(q) == [i \in 1..Len(q) |-> q[Len(q) + 1 - i]]

\* The links a call goes through, outermost first, ending in the service.
Chain == Reverse(Wrapping) \o <<"stringService">>

\* ------------------------------------------------------------ metrics
Methods == {"uppercase", "count"}

\* fieldKeys := []string{"method", "error"}
Labels == Methods \X {"true", "false"}

\* fmt.Sprint(err != nil)
ErrorLabel(err) == IF err # Nil THEN "true" ELSE "false"

\* The error a call of the method returned; Count has no error result.
ResultError(method, res) == IF method = "uppercase" THEN res.err ELSE Nil

\* requestCount.With("method", m, "error", e).Add(1): one atomic increment.
CounterAdd(counter, method, err) ==
    [counter EXCEPT ![<<method, ErrorLabel(err)>>] = @ + 1]

\* countResult.Observe(float64(n))
SummaryObserve(summary, x) == [count |-> summary.count + 1, sum |-> summary.sum + x]

\* The record loggingMiddleware hands to logger.Log.
LogRecord(method, s, res) ==
    IF method = "uppercase"
    THEN [method |-> method, input |-> s, output |-> res.v, err |-> res.err]
    ELSE [method |-> method, input |-> s, n |-> res.n]

\* Both decorators hand the inner call's result back as they received it.
loggingMiddlewareReturn(res) == res

instrumentingMiddlewareReturn(res) == res

DecoratorReturn(link, res) ==
    IF link = "loggingMiddleware" THEN loggingMiddlewareReturn(res)
    ELSE IF link = "instrumentingMiddleware" THEN instrumentingMiddlewareReturn(res)
    ELSE res

\* The method of the concrete service a call ends in.
ServiceCall(method, s) ==
    IF method = "uppercase" THEN Uppercase(s) ELSE [n |-> Count(s)]

\* -------------------------------------------------------------- state
VARIABLES
    pc,             \* where each request's goroutine stands
    route,          \* the route the request came in on
    body,           \* its body on the wire
    request,        \* the value the decoder returned
    stack,          \* the chain links the call is inside of, outermost first
    trace,          \* the links entered and left so far, in order
    result,         \* what the innermost finished link returned
    response,       \* what the endpoint returned
    endpointErr,    \* the error the endpoint returned beside it
    status,         \* HTTP status written, 0 while none is
    wire,           \* JSON object written as the response body
    requestCount,   \* counter request_count, by {method, error}
    requestLatency, \* observations of request_latency_microseconds, by label
    countResult,    \* summary count_result
    logRecords      \* records the logger sink received, in order

vars == <<pc, route, body, request, stack, trace, result, response, endpointErr, status, wire,
          requestCount, requestLatency, countResult, logRecords>>

Workers == 1..NumRequests

NoResult == [none |-> TRUE]

NoWire == [none |-> TRUE]

Init ==
    /\ pc = [w \in Workers |-> "idle"]
    /\ route = [w \in Workers |-> "/uppercase"]
    /\ body = [w \in Workers |-> MalformedBody]
    /\ request = [w \in Workers |-> NoRequest]
    /\ stack = [w \in Workers |-> <<>>]
    /\ trace = [w \in Workers |-> <<>>]
    /\ result = [w \in Workers |-> NoResult]
    /\ response = [w \in Workers |-> NoResponse]
    /\ endpointErr = [w \in Workers |-> Nil]
    /\ status = [w \in Workers |-> 0]
    /\ wire = [w \in Workers |-> NoWire]
    /\ requestCount = [l \in Labels |-> 0]
    /\ requestLatency = [l \in Labels |-> 0]
    /\ countResult = [count |-> 0, sum |-> 0]
    /\ logRecords = <<>>

\* A request arrives on a route and gets its own goroutine.
Receive(w, r, b) ==
    /\ pc[w] = "idle"
    /\ pc' = [pc EXCEPT ![w] = "received"]
    /\ route' = [route EXCEPT ![w] = r]
    /\ body' = [body EXCEPT ![w] = b]
    /\ UNCHANGED <<request, stack, trace, result, response, endpointErr, status, wire,
                   requestCount, requestLatency, countResult, logRecords>>

\* Server.ServeHTTP runs the handler's decoder; an error goes to the
\* default error encoder (status 500) and the endpoint is not called.
Decode(w) ==
    /\ pc[w] = "received"
    /\ LET d == RunDecoder(Handler(route[w]).dec, body[w])
       IN  IF d.err # Nil
           THEN /\ pc' = [pc EXCEPT ![w] = "done"]
                /\ status' = [status EXCEPT ![w] = 500]
                /\ UNCHANGED request
           ELSE /\ pc' = [pc EXCEPT ![w] = "decoded"]
                /\ request' = [request EXCEPT ![w] = d.request]
                /\ UNCHANGED status
    /\ UNCHANGED <<route, body, stack, trace, result, response, endpointErr, wire,
                   requestCount, requestLatency, countResult, logRecords>>

\* The endpoint narrows the request (a failed type assertion panics) and
\* calls the service it closed over.
EndpointCall(w) ==
    /\ pc[w] = "decoded"
    /\ IF request[w].type = EndpointRequestType(Handler(route[w]).endpoint)
       THEN pc' = [pc EXCEPT ![w] = "calling"]
       ELSE pc' = [pc EXCEPT ![w] = "panic"]
    /\ UNCHANGED <<route, body, request, stack, trace, result, response, endpointErr, status, wire,
                   requestCount, requestLatency, countResult, logRecords>>

\* The call enters the next link; the concrete service computes the result.
Enter(w) ==
    /\ pc[w] = "calling"
    /\ Len(stack[w]) < Len(Chain)
    /\ LET link == Chain[Len(stack[w]) + 1]
           method == EndpointMethod(Handler(route[w]).endpoint)
       IN  /\ stack' = [stack EXCEPT ![w] = Append(@, link)]
           /\ trace' = [trace EXCEPT ![w] = Append(@, <<"enter", link>>)]
           /\ IF link = "stringService"
              THEN /\ result' = [result EXCEPT ![w] = ServiceCall(method, request[w].S)]
                   /\ pc' = [pc EXCEPT ![w] = "returning"]
              ELSE UNCHANGED <<result, pc>>
    /\ UNCHANGED <<route, body, request, response, endpointErr, status, wire,
                   requestCount, requestLatency, countResult, logRecords>>

\* The innermost active link returns: the logging decorator's deferred
\* function writes its record, the instrumenting decorator's deferred
\* function updates the metrics, and the result goes to the caller.
Exit(w) ==
    /\ pc[w] = "returning"
    /\ stack[w] # <<>>
    /\ LET link == stack[w][Len(stack[w])]
           method == EndpointMethod(Handler(route[w]).endpoint)
           err == ResultError(method, result[w])
       IN  /\ stack' = [stack EXCEPT ![w] = SubSeq(@, 1, Len(@) - 1)]
           /\ trace' = [trace EXCEPT ![w] = Append(@, <<"exit", link>>)]
           /\ result' = [result EXCEPT ![w] = DecoratorReturn(link, @)]
           /\ logRecords' =
                 IF link = "loggingMiddleware"
                 THEN Append(logRecords, LogRecord(method, request[w].S, result[w]))
                 ELSE logRecords
           /\ requestCount' =
                 IF link = "instrumentingMiddleware"
                 THEN CounterAdd(requestCount, method, err)
                 ELSE requestCount
           /\ requestLatency' =
                 IF link = "instrumentingMiddleware"
                 THEN CounterAdd(requestLatency, method, err)
                 ELSE requestLatency
           /\ countResult' =
                 IF link = "instrumentingMiddleware" /\ method = "count"
                 THEN SummaryObserve(countResult, result[w].n)
                 ELSE countResult
           /\ pc' = [pc EXCEPT ![w] = IF Len(stack[w]) = 1 THEN "returned" ELSE @]
    /\ UNCHANGED <<route, body, request, response, endpointErr, status, wire>>

\* The endpoint wraps the service's result; ServeHTTP sends a non-nil
\* endpoint error to the default error encoder (status 500).
EndpointReturn(w) ==
    /\ pc[w] = "returned"
    /\ LET e == IF Handler(route[w]).endpoint = "makeUppercaseEndpoint"
                THEN makeUppercaseEndpoint(result[w])
                ELSE makeCountEndpoint(result[w])
       IN  /\ endpointErr' = [endpointErr EXCEPT ![w] = e.err]
           /\ IF e.err # Nil
              THEN /\ pc' = [pc EXCEPT ![w] = "done"]
                   /\ status' = [status EXCEPT ![w] = 500]
                   /\ UNCHANGED response
              ELSE /\ pc' = [pc EXCEPT ![w] = "responding"]
                   /\ response' = [response EXCEPT ![w] = e.response]
                   /\ UNCHANGED status
    /\ UNCHANGED <<route, body, request, stack, trace, result, wire,
                   requestCount, requestLatency, countResult, logRecords>>

\* encodeResponse writes the body; the first write sends status 200.
Encode(w) ==
    /\ pc[w] = "responding"
    /\ wire' = [wire EXCEPT ![w] = encodeResponse(response[w])]
    /\ status' = [status EXCEPT ![w] = 200]
    /\ pc' = [pc EXCEPT ![w] = "done"]
    /\ UNCHANGED <<route, body, request, stack, trace, result, response, endpointErr,
                   requestCount, requestLatency, countResult, logRecords>>

Step(w) ==
    \/ Decode(w)
    \/ EndpointCall(w)
    \/ Enter(w)
    \/ Exit(w)
    \/ EndpointReturn(w)
    \/ Encode(w)

\* Concurrent requests over the sample strings.
Next ==
    \/ \E w \in Workers, r \in Routes, b \in BodiesOver(SampleStrings) : Receive(w, r, b)
    \/ \E w \in Workers : Step(w)

Spec == Init /\ [][Next]_vars

\* One request over every string up to MaxLen.
NextSingle ==
    \/ \E r \in Routes, b \in BodiesOver(StringsUpTo(MaxLen)) : Receive(1, r, b)
    \/ Step(1)

SpecSingle == Init /\ [][NextSingle]_vars

\* ------------------------------------------------------------ helpers
Range(q) == {q[i] : i \in DOMAIN q}

\* The service method a request's route leads to, read off the route alone.
RouteMethod(w) == IF route[w] = "/uppercase" THEN "uppercase" ELSE "count"

\* The concrete service has just returned to its caller.
ServiceJustReturned(w) ==
    /\ pc[w] = "returning"
    /\ stack[w] # <<>>
    /\ stack[w][Len(stack[w])] = "stringService"

\* The endpoint's call of the service has returned to the endpoint.
CallCompleted(w) == pc[w] \in {"returned", "responding", "done"} /\ trace[w] # <<>>

\* The endpoint has returned to the transport.
EndpointReturned(w) == pc[w] \in {"responding", "done"} /\ trace[w] # <<>>

\* The request's body does not decode into the request structure.
DecodeFails(w) == body[w].json = "malformed" \/ body[w].field = "number"

IsLower(b) == b >= 97 /\ b <= 122

\* v is s with every lower-case ASCII letter replaced by its capital.
IsUpperOf(v, s) ==
    /\ Cardinality(DOMAIN v) = Cardinality(DOMAIN s)
    /\ \A i \in DOMAIN s : v[i] = IF IsLower(s[i]) THEN s[i] - 32 ELSE s[i]

CompletedCalls(m) == {w \in Workers : RouteMethod(w) = m /\ CallCompleted(w)}

Enters(w) == SelectSeq(trace[w], LAMBDA e : e[1] = "enter")

Exits(w) == SelectSeq(trace[w], LAMBDA e : e[1] = "exit")

DecoratorExits(w) ==
    SelectSeq(trace[w], LAMBDA e : e[1] = "exit" /\ e[2] # "stringService")

\* ------------------------------------------------------------- claims
\* C1: the base service's Uppercase returns ("", ErrEmpty) for the empty
\* string and (upper-case transform of s, nil) for a non-empty s; it never
\* returns a non-empty value together with an error.
C1_UppercaseContract ==
    \A w \in Workers :
        (ServiceJustReturned(w) /\ RouteMethod(w) = "uppercase") =>
            LET s == request[w].S
                r == result[w]
            IN  /\ s = <<>> => (r.v = <<>> /\ ~r.err.isNil /\ r.err.msg = "empty string")
                /\ s # <<>> => (IsUpperOf(r.v, s) /\ r.err.isNil)
                /\ ~(r.v # <<>> /\ ~r.err.isNil)

C1_Witness ==
    \E w \in Workers :
        /\ ServiceJustReturned(w)
        /\ RouteMethod(w) = "uppercase"
        /\ request[w].S = <<97, 49, 65>>
        /\ result[w].v = <<65, 49, 65>>

\* C2: Count returns the number of code units of s for every s, 0 for the
\* empty string, and its result carries no error.
C2_CountContract ==
    \A w \in Workers :
        (ServiceJustReturned(w) /\ RouteMethod(w) = "count") =>
            /\ result[w].n = Cardinality(DOMAIN request[w].S)
            /\ request[w].S = <<>> => result[w].n = 0
            /\ DOMAIN result[w] = {"n"}

C2_Witness ==
    \E w \in Workers :
        /\ ServiceJustReturned(w)
        /\ RouteMethod(w) = "count"
        /\ request[w].S = <<97, 97>>
        /\ result[w].n = 2

\* C3: for a well-typed request both endpoints return a nil transport
\* error; a business error of Uppercase travels in the response's Err with
\* the value the service returned in V, and Err is empty when there is none.
C3_EndpointErrorAsData ==
    \A w \in Workers :
        (pc[w] \in {"responding", "done"} /\ trace[w] # <<>>) =>
            /\ endpointErr[w].isNil
            /\ RouteMethod(w) = "uppercase" =>
                  /\ response[w].type = "uppercaseResponse"
                  /\ response[w].V = result[w].v
                  /\ ~result[w].err.isNil => response[w].Err = result[w].err.msg
                  /\ result[w].err.isNil => response[w].Err = ""
            /\ RouteMethod(w) = "count" =>
                  /\ response[w].type = "countResponse"
                  /\ response[w].V = result[w].n

C3_Witness ==
    \E w \in Workers :
        /\ pc[w] = "responding"
        /\ RouteMethod(w) = "uppercase"
        /\ ~result[w].err.isNil
        /\ response[w].Err = "empty string"
        /\ endpointErr[w].isNil

\* C4: a request whose body fails to decode gets a non-2xx status, and
\* neither the endpoint nor any link of the chain runs for it: it adds
\* nothing to request_count and no log record.
C4_DecodeFailureStopsRequest ==
    /\ \A w \in Workers :
          (pc[w] # "idle" /\ DecodeFails(w)) =>
              /\ pc[w] \in {"received", "done"}
              /\ trace[w] = <<>>
              /\ stack[w] = <<>>
              /\ response[w] = NoResponse
              /\ pc[w] = "done" => (status[w] # 0 /\ ~(status[w] >= 200 /\ status[w] <= 299))
    /\ requestCount[<<"uppercase", "true">>] + requestCount[<<"uppercase", "false">>]
       + requestCount[<<"count", "true">>] + requestCount[<<"count", "false">>]
          = Cardinality({w \in Workers : CallCompleted(w) /\ ~DecodeFails(w)})
    /\ Len(logRecords) <= Cardinality({w \in Workers : pc[w] # "idle" /\ ~DecodeFails(w)})

C4_Witness ==
    \E w \in Workers :
        /\ pc[w] = "done"
        /\ body[w] = MalformedBody
        /\ route[w] = "/count"
        /\ status[w] = 500
        /\ \E u \in Workers : u # w /\ pc[u] = "done" /\ status[u] = 200

\* C5: under any interleaving, request_count summed over method=count
\* equals the number of Count calls made, summed over method=uppercase the
\* number of Uppercase calls, and {uppercase, error} the number of
\* Uppercase calls with the empty string.
C5_RequestCountMatchesCalls ==
    /\ requestCount[<<"count", "true">>] + requestCount[<<"count", "false">>]
          = Cardinality(CompletedCalls("count"))
    /\ requestCount[<<"uppercase", "true">>] + requestCount[<<"uppercase", "false">>]
          = Cardinality(CompletedCalls("uppercase"))
    /\ requestCount[<<"uppercase", "true">>]
          = Cardinality({w \in CompletedCalls("uppercase") : request[w].S = <<>>})

C5_Witness ==
    /\ requestCount[<<"uppercase", "true">>] = 1
    /\ requestCount[<<"count", "false">>] = 1
    /\ \A w \in Workers : pc[w] = "done"

C7_OneLogRecordAfterDelegation ==
    LET logged == {w \in Workers :
                      /\ <<"exit", "stringService">> \in Range(trace[w])
                      /\ "loggingMiddleware" \notin Range(stack[w])}
    IN  /\ Len(logRecords) = Cardinality(logged)
        /\ Cardinality({i \in DOMAIN logRecords :
                           logRecords[i].method = "uppercase" /\ ~logRecords[i].err.isNil})
              = Cardinality({w \in logged :
                                RouteMethod(w) = "uppercase" /\ request[w].S = <<>>})

C7_Witness ==
    /\ Len(logRecords) = 2
    /\ logRecords[1].method = "uppercase"
    /\ ~logRecords[1].err.isNil
    /\ logRecords[2].method = "count"

\* C8: a decoded request on /uppercase is answered with a success status
\* whether or not the operation failed; the body has the key err, with a
\* non-empty string, exactly when the input was empty (an absent s
\* included), and has no err key when the operation succeeded.
C8_ErrKeyIffBusinessError ==
    \A w \in Workers :
        (pc[w] = "done" /\ route[w] = "/uppercase" /\ ~DecodeFails(w)) =>
            LET empty == body[w].field = "absent" \/ body[w].s = <<>>
            IN  /\ status[w] >= 200 /\ status[w] <= 299
                /\ "v" \in DOMAIN wire[w]
                /\ empty <=> "err" \in DOMAIN wire[w]
                /\ "err" \in DOMAIN wire[w] => wire[w].err # ""

C8_Witness ==
    \E w \in Workers :
        /\ pc[w] = "done"
        /\ route[w] = "/uppercase"
        /\ body[w] = NoFieldBody
        /\ status[w] = 200
        /\ wire[w] = [v |-> <<>>, err |-> "empty string"]

\* C9 as stated: every call goes through each decorator once and ends in
\* one invocation of stringService, and the outermost wrapper is first on
\* entry and first on exit.
C9_OutermostFirstOnExit ==
    \A w \in Workers :
        CallCompleted(w) =>
            /\ Enters(w)[1][2] = "instrumentingMiddleware"
            /\ DecoratorExits(w)[1][2] = "instrumentingMiddleware"

\* C9 amended: every call goes through each decorator once and ends in
\* one invocation of stringService; links are entered outermost first
\* (instrumenting, logging, service) and left in the opposite order, so the
\* outermost wrapper is first on entry and last on exit.
C9_OutermostFirstInLastOut ==
    \A w \in Workers :
        /\ CallCompleted(w) =>
              /\ Enters(w) = << <<"enter", "instrumentingMiddleware">>,
                                <<"enter", "loggingMiddleware">>,
                                <<"enter", "stringService">> >>
              /\ Exits(w) = << <<"exit", "stringService">>,
                               <<"exit", "loggingMiddleware">>,
                               <<"exit", "instrumentingMiddleware">> >>
              /\ trace[w] = Enters(w) \o Exits(w)
        /\ \A i \in DOMAIN trace[w] : \A j \in DOMAIN trace[w] :
              trace[w][i] = trace[w][j] => i = j

C9_Witness ==
    \E w \in Workers : \E u \in Workers :
        /\ w # u
        /\ CallCompleted(w)
        /\ pc[u] = "returning"
        /\ Len(stack[u]) = 1

\* C10: the request handed to an endpoint always has the type that
\* endpoint narrows to, so the narrowing never fails and every response
\* written has the shape of its route's response.
C10_RequestShapeMatchesEndpoint ==
    \A w \in Workers :
        /\ pc[w] # "panic"
        /\ pc[w] \in {"decoded", "calling", "returning", "returned", "responding"} =>
              request[w].type =
                 IF route[w] = "/uppercase" THEN "uppercaseRequest" ELSE "countRequest"
        /\ (pc[w] = "done" /\ status[w] = 200) =>
              IF route[w] = "/uppercase"
              THEN "v" \in DOMAIN wire[w] /\ DOMAIN wire[w] \subseteq {"v", "err"}
              ELSE DOMAIN wire[w] = {"V"}

C10_Witness ==
    \E w \in Workers : \E u \in Workers :
        /\ pc[w] = "calling" /\ route[w] = "/count" /\ request[w].type = "countRequest"
        /\ pc[u] = "calling" /\ route[u] = "/uppercase"
        /\ request[u].type = "uppercaseRequest"

====
